---- MODULE Spec2Model ----
(***************************************************************************)
(* Gain-loss-scenario inference of TreBor (src/trebor.py).                 *)
(*                                                                         *)
(* A bifurcating tree over the taxa 1..n (numbered in the left-to-right    *)
(* order of the tips) is the set of its nodes, each node being the         *)
(* interval <<i, j>> of the tips it dominates: <<k, k>> is the tip of      *)
(* taxon k, <<1, n>> is the node named 'root'.  The interval is the node's *)
(* Name.  The taxon order of the wordlist is taken to be the tip order of  *)
(* the tree, so taxa.index(<<k, k>>) is k.                                 *)
(*                                                                         *)
(* A partial history is the pair <<state, events>> of the source, an event *)
(* is the pair <<name, event>>, a scenario (GLS) is a sequence of events.  *)
(***************************************************************************)
EXTENDS Integers, Sequences, FiniteSets, TLC

VARIABLES taxa,         \* number of taxa n; self.taxa is 1..n
          tree,         \* self.tree, the set of its nodes
          pap,          \* the presence-absence profile handed to the solver
          mode,         \* "weighted" or "restriction"
          ratio,        \* <<gain weight, loss weight>>
          restriction,  \* maximal number of gains
          d,            \* the solver's dictionary: node -> list of histories
          gls_list,     \* scenarios converted from d[tree.Name]
          gls,          \* the scenario returned by the solver
          paps,         \* get_AVSD: projected state of the internal nodes
          pc,           \* "ready", "solved", "raised", "projected"
          self_paps,    \* self.paps over self.cogs: character -> profile
          self_gls,     \* self.gls: mode string -> character -> <<gls, noo>>
          self_stats,   \* self.stats: mode string -> statistics of the run
          self_dists,   \* self.dists: key -> vocabulary size distribution
          self_graph,   \* self.graph
          gPrm,         \* get_MLN: the primary graph
          gMST,         \* get_MLN: the graph of the lateral edges
          ile,          \* get_MLN: character -> inferred lateral events
          last,         \* the last call on the object and how it ended
          budget        \* number of calls the session still makes

\* the state of one solver call
solver_vars == <<pap, mode, ratio, restriction, d, gls_list, gls, paps, pc>>

\* the state of the TreBor object
object_vars == <<self_paps, self_gls, self_stats, self_dists, self_graph,
                 gPrm, gMST, ile, last, budget>>

vars == <<taxa, tree, solver_vars, object_vars>>

(***************************************************************************)
(* Bounds of the model.                                                    *)
(***************************************************************************)
\* trees of every shape up to MaxTaxa tips, ladder trees with one tip more
MaxTaxa == 5
MaxRestriction == 3

\* the ratios of the runs of the test analysis
Ratios == {<<3, 1>>, <<2, 1>>, <<1, 1>>, <<5, 2>>, <<3, 2>>}

Restrictions == 0..MaxRestriction

(***************************************************************************)
(* Generic helpers for the list operations of the source.                  *)
(***************************************************************************)
RECURSIVE ConcatAll(_)
ConcatAll(ss) == IF Len(ss) = 0 THEN <<>> ELSE Head(ss) \o ConcatAll(Tail(ss))

\* list.count(v)
Count(s, v) == Cardinality({i \in 1..Len(s) : s[i] = v})

RECURSIVE SumSeq(_)
SumSeq(s) == IF Len(s) = 0 THEN 0 ELSE Head(s) + SumSeq(Tail(s))

MinOf(S) == CHOOSE x \in S : \A y \in S : x <= y

\* sorted(s, key = ...): stable, keys[i] is the key of s[i]
sorted(s, keys) ==
    LET n == Len(s)
        rank(i) == 1 + Cardinality({j \in 1..n :
                        keys[j] < keys[i] \/ (keys[j] = keys[i] /\ j < i)})
    IN  [p \in 1..n |-> s[CHOOSE i \in 1..n : rank(i) = p]]

\* sorted(s, key = ..., reverse = True): descending keys, equal keys keep
\* their original order
sorted_reverse(s, keys) == sorted(s, [i \in 1..Len(s) |-> 0 - keys[i]])

(***************************************************************************)
(* The tree interface (lingpy.thirdparty.cogent) as the source uses it.    *)
(***************************************************************************)
\* all bifurcating trees over the tips i..j
RECURSIVE Trees(_, _)
Trees(i, j) ==
    IF i = j THEN {{<<i, i>>}}
    ELSE UNION {{({<<i, j>>} \cup L) \cup R :
                    L \in Trees(i, m), R \in Trees(m + 1, j)} : m \in i..(j - 1)}

\* the ladder trees over the tips i..j: every internal node has a tip child
RECURSIVE Ladders(_, _)
Ladders(i, j) ==
    IF i = j THEN {{<<i, i>>}}
    ELSE {({<<i, j>>, <<i, i>>}) \cup R : R \in Ladders(i + 1, j)}
         \cup {({<<i, j>>, <<j, j>>}) \cup L : L \in Ladders(i, j - 1)}

\* the trees the solver is run on
InputTrees(n) == IF n <= MaxTaxa THEN Trees(1, n) ELSE Ladders(1, n)

IsTip(n) == n[1] = n[2]

\* node.Children
Children(t, n) ==
    IF IsTip(n) THEN <<>>
    ELSE LET m == CHOOSE m \in n[1]..(n[2] - 1) :
                      <<n[1], m>> \in t /\ <<m + 1, n[2]>> \in t
         IN  << <<n[1], m>>, <<m + 1, n[2]>> >>

\* node.tips(): the tips below the node, the node itself excluded
tips(n) == IF IsTip(n) THEN <<>>
           ELSE [k \in 1..(n[2] - n[1] + 1) |-> <<n[1] + k - 1, n[1] + k - 1>>]

\* preorder traversal of the subtree of n, n included
RECURSIVE Preorder(_, _)
Preorder(t, n) ==
    IF IsTip(n) THEN <<n>>
    ELSE <<n>> \o Preorder(t, Children(t, n)[1]) \o Preorder(t, Children(t, n)[2])

\* node.nontips(): the internal nodes below the node, the node itself
\* excluded (the callers add the node: tree.nontips()+[tree])
nontips(t, n) == SelectSeq(Tail(Preorder(t, n)), LAMBDA x : ~IsTip(x))

\* tree.lowestCommonAncestor(names of the tips in S)
lowestCommonAncestor(t, S) ==
    LET lo == MinOf(S)
        hi == CHOOSE x \in S : \A y \in S : y <= x
        above == {n \in t : n[1] <= lo /\ hi <= n[2]}
    IN  CHOOSE n \in above : \A m \in above : n[2] - n[1] <= m[2] - m[1]

\* m lies in the subtree of n (m = n included)
Dominates(n, m) == n[1] <= m[1] /\ m[2] <= n[2]


(***************************************************************************)
(* Parts shared by get_weighted_GLS and get_restricted_GLS.                *)
(***************************************************************************)
\* [k[1] for k in tmp]: the events of a list of (name, event) pairs
EventsOf(tmp) == [i \in 1..Len(tmp) |-> tmp[i][2]]

\* the subtree containing all taxa that have positive paps
Subtree(t, p) == lowestCommonAncestor(t, {i \in 1..Len(p) : p[i] >= 1})

\* d after the loop over the tips of the subtree: d[node] = [(state,[])]
LeafStates(sub, p) ==
    [n \in {tips(sub)[i] : i \in 1..Len(tips(sub))} |->
        << <<(IF p[n[1]] >= 1 THEN 1 ELSE 0), <<>> >> >>]

\* SingleOrigin testing a non-empty list of tips only
SingleOrigin_nonempty(sub, dd) ==
    /\ Len(tips(sub)) > 0
    /\ SumSeq([i \in 1..Len(tips(sub)) |-> dd[tips(sub)[i]][1][1]]) = Len(tips(sub))

\* the group is single-origin: every tip of the subtree has state 1
SingleOrigin(sub, dd) ==
    SumSeq([i \in 1..Len(tips(sub)) |-> dd[tips(sub)[i]][1][1]]) = Len(tips(sub))

\* the internal nodes ordered according to the number of their leaves
OrderedNodes(t, sub) ==
    LET ns == nontips(t, sub) \o <<sub>>
    IN  sorted(ns, [i \in 1..Len(ns) |-> Len(tips(ns[i]))])

\* AdditionalGain that never finds one
AdditionalGain_never(state, tmp) == FALSE

\* an additional gain is inferred on the path: the retained state is 1
\* and the committed events already hold a gain (noA / noB)
AdditionalGain(state, tmp) ==
    state = 1 /\ \E i \in 1..Len(tmp) : tmp[i][2] = 1

\* the two nested loops over nodesA and nodesB: the pairs (nodeA, nodeB) in
\* the order the loops visit them
AllPaths(nodesA, nodesB) ==
    [q \in 1..(Len(nodesA) * Len(nodesB)) |->
        <<nodesA[((q - 1) \div Len(nodesB)) + 1],
          nodesB[((q - 1) % Len(nodesB)) + 1]>>]

\* d[node.Name] = newNodes sits in the body of the loop over nodesA: the
\* key is only set when nodesA is not empty
StoreNodes(dd, node, nodesA, newNodes) ==
    IF Len(nodesA) = 0 THEN dd
    ELSE [x \in (DOMAIN dd) \cup {node} |-> IF x = node THEN newNodes ELSE dd[x]]

\* GlsList that leaves out the gain at the subtree's root
GlsList_noroot(sub, hs) == [i \in 1..Len(hs) |-> hs[i][2]]

\* GlsList that puts the gain at the subtree's root into every scenario
GlsList_always(sub, hs) == [i \in 1..Len(hs) |-> << <<sub, 1>> >> \o hs[i][2]]

\* convert d[tree.Name] to the simple format
GlsList(sub, hs) ==
    [i \in 1..Len(hs) |->
        IF hs[i][1] = 1 THEN << <<sub, 1>> >> \o hs[i][2] ELSE hs[i][2]]

Gains(line) == Cardinality({i \in 1..Len(line) : line[i][2] = 1})
Losses(line) == Cardinality({i \in 1..Len(line) : line[i][2] = 0})

\* [gls_list[i] for i in range(len(tracer)) if tracer[i] == minScore]
MinimalScenarios(gl, tracer) ==
    LET minScore == MinOf({tracer[i] : i \in 1..Len(tracer)})
        idx == SelectSeq([i \in 1..Len(gl) |-> i], LAMBDA i : tracer[i] = minScore)
    IN  [j \in 1..Len(idx) |-> gl[idx[j]]]

\* the outcome of a solver call
Returned(dd, gl, line) == [d |-> dd, gls_list |-> gl, gls |-> line, raised |-> FALSE]
Raised(dd, gl) == [d |-> dd, gls_list |-> gl, gls |-> <<>>, raised |-> TRUE]

(***************************************************************************)
(* get_weighted_GLS                                                        *)
(***************************************************************************)
\* MaxWeight taking the larger of the two cases
MaxWeight_max(p, r) == IF Count(p, 1) * r[1] >= Count(p, 0) * r[2] + r[1]
                       THEN Count(p, 1) * r[1]
                       ELSE Count(p, 0) * r[2] + r[1]

\* the general restriction value
\* MaxWeight counting the losses only, without the gain that goes with them
MaxWeight_losses(p, r) == IF Count(p, 1) * r[1] <= Count(p, 0) * r[2]
                          THEN Count(p, 1) * r[1]
                          ELSE Count(p, 0) * r[2]

MaxWeight(p, r) == IF Count(p, 1) * r[1] <= Count(p, 0) * r[2] + r[1]
                   THEN Count(p, 1) * r[1]
                   ELSE Count(p, 0) * r[2] + r[1]

\* Weight with the two weights of the ratio exchanged
Weight_swapped(state, tmp, r) ==
    LET gl == EventsOf(tmp) \o (IF state = 1 THEN <<1>> ELSE <<>>)
    IN  Count(gl, 1) * r[2] + Count(gl, 0) * r[1]

\* weight of the events tmp plus the gain of a retained state 1
Weight(state, tmp, r) ==
    LET gl == EventsOf(tmp) \o (IF state = 1 THEN <<1>> ELSE <<>>)
    IN  Count(gl, 1) * r[1] + Count(gl, 0) * r[2]

\* the histories one pair (nodeA, nodeB) adds to newNodes
WeightedPaths(nodeA, nodeB, nameA, nameB, r, maxWeight) ==
    IF nodeA[1] = nodeB[1]
    THEN LET tmp == nodeA[2] \o nodeB[2]
         IN  IF Weight(nodeA[1], tmp, r) <= maxWeight
             THEN << <<nodeA[1], tmp>> >> ELSE <<>>
    ELSE LET tmpA == (nodeA[2] \o nodeB[2]) \o << <<nameA, nodeA[1]>> >>
             tmpB == (nodeA[2] \o nodeB[2]) \o << <<nameB, nodeB[1]>> >>
             weightA == Weight(nodeB[1], tmpA, r)
             weightB == Weight(nodeA[1], tmpB, r)
             noA == AdditionalGain(nodeB[1], tmpA)
             noB == AdditionalGain(nodeA[1], tmpB)
         IN  (IF weightA <= maxWeight /\ ~noA
              THEN << <<nodeB[1], tmpA>> >> ELSE <<>>)
             \o (IF weightB <= maxWeight /\ ~noB
                 THEN << <<nodeA[1], tmpB>> >> ELSE <<>>)

\* join the nodes successively; a node without two children or a child
\* without an entry in d raises
RECURSIVE WeightedJoin(_, _, _, _, _)
WeightedJoin(t, todo, dd, r, maxWeight) ==
    IF Len(todo) = 0 THEN [d |-> dd, raised |-> FALSE]
    ELSE LET node == Head(todo)
             ch == Children(t, node)
         IN  IF Len(ch) # 2 \/ ch[1] \notin DOMAIN dd \/ ch[2] \notin DOMAIN dd
             THEN [d |-> dd, raised |-> TRUE]
             ELSE LET paths == AllPaths(dd[ch[1]], dd[ch[2]])
                      newNodes == ConcatAll([q \in 1..Len(paths) |->
                          WeightedPaths(paths[q][1], paths[q][2],
                                        ch[1], ch[2], r, maxWeight)])
                  IN  WeightedJoin(t, Tail(todo),
                          StoreNodes(dd, node, dd[ch[1]], newNodes), r, maxWeight)

\* WeightedSelect returning the first minimal scenario, unsorted
WeightedSelect_first(gl, r) ==
    LET tracer == [i \in 1..Len(gl) |-> r[1] * Gains(gl[i]) + r[2] * Losses(gl[i])]
    IN  MinimalScenarios(gl, tracer)[1]

\* the minimal scenarios sorted by the number of gains, the first returned
WeightedSelect(gl, r) ==
    LET tracer == [i \in 1..Len(gl) |-> r[1] * Gains(gl[i]) + r[2] * Losses(gl[i])]
        best == MinimalScenarios(gl, tracer)
    IN  sorted(best, [i \in 1..Len(best) |-> SumSeq(EventsOf(best[i]))])[1]

WeightedGLS(t, p, r) ==
    LET sub == Subtree(t, p)
        d0 == LeafStates(sub, p)
    IN  IF SingleOrigin(sub, d0) THEN Returned(d0, <<>>, << <<sub, 1>> >>)
        ELSE LET j == WeightedJoin(t, OrderedNodes(t, sub), d0, r, MaxWeight(p, r))
             IN  IF j.raised \/ sub \notin DOMAIN j.d THEN Raised(j.d, <<>>)
                 ELSE LET gl == GlsList(sub, j.d[sub])
                      IN  IF Len(gl) = 0 THEN Raised(j.d, gl)
                          ELSE Returned(j.d, gl, WeightedSelect(gl, r))

(***************************************************************************)
(* get_restricted_GLS                                                      *)
(***************************************************************************)
\* RestrictedPaths that counts the committed gains only and leaves out the
\* retained state
RestrictedPaths_nostate(nodeA, nodeB, nameA, nameB, k) ==
    IF nodeA[1] = nodeB[1]
    THEN LET tmp == nodeA[2] \o nodeB[2]
         IN  IF Gains(tmp) <= k
             THEN << <<nodeA[1], tmp>> >> ELSE <<>>
    ELSE LET tmpA == (nodeA[2] \o nodeB[2]) \o << <<nameA, nodeA[1]>> >>
             tmpB == (nodeA[2] \o nodeB[2]) \o << <<nameB, nodeB[1]>> >>
             gainsA == SumSeq(EventsOf(tmpA))
             gainsB == SumSeq(EventsOf(tmpB))
             noA == AdditionalGain(nodeB[1], tmpA)
             noB == AdditionalGain(nodeA[1], tmpB)
         IN  (IF gainsA <= k /\ ~noA
              THEN << <<nodeB[1], tmpA>> >> ELSE <<>>)
             \o (IF gainsB <= k /\ ~noB
                 THEN << <<nodeA[1], tmpB>> >> ELSE <<>>)

\* RestrictedPaths keeping only the histories below the restriction
RestrictedPaths_below(nodeA, nodeB, nameA, nameB, k) ==
    IF nodeA[1] = nodeB[1]
    THEN LET tmp == nodeA[2] \o nodeB[2]
         IN  IF Gains(tmp) + nodeA[1] < k
             THEN << <<nodeA[1], tmp>> >> ELSE <<>>
    ELSE LET tmpA == (nodeA[2] \o nodeB[2]) \o << <<nameA, nodeA[1]>> >>
             tmpB == (nodeA[2] \o nodeB[2]) \o << <<nameB, nodeB[1]>> >>
             gainsA == nodeB[1] + SumSeq(EventsOf(tmpA))
             gainsB == nodeA[1] + SumSeq(EventsOf(tmpB))
             noA == AdditionalGain(nodeB[1], tmpA)
             noB == AdditionalGain(nodeA[1], tmpB)
         IN  (IF gainsA < k /\ ~noA
              THEN << <<nodeB[1], tmpA>> >> ELSE <<>>)
             \o (IF gainsB < k /\ ~noB
                 THEN << <<nodeA[1], tmpB>> >> ELSE <<>>)

\* the histories one pair (nodeA, nodeB) adds to newNodes
RestrictedPaths(nodeA, nodeB, nameA, nameB, k) ==
    IF nodeA[1] = nodeB[1]
    THEN LET tmp == nodeA[2] \o nodeB[2]
         IN  IF Gains(tmp) + nodeA[1] <= k
             THEN << <<nodeA[1], tmp>> >> ELSE <<>>
    ELSE LET tmpA == (nodeA[2] \o nodeB[2]) \o << <<nameA, nodeA[1]>> >>
             tmpB == (nodeA[2] \o nodeB[2]) \o << <<nameB, nodeB[1]>> >>
             gainsA == nodeB[1] + SumSeq(EventsOf(tmpA))
             gainsB == nodeA[1] + SumSeq(EventsOf(tmpB))
             noA == AdditionalGain(nodeB[1], tmpA)
             noB == AdditionalGain(nodeA[1], tmpB)
         IN  (IF gainsA <= k /\ ~noA
              THEN << <<nodeB[1], tmpA>> >> ELSE <<>>)
             \o (IF gainsB <= k /\ ~noB
                 THEN << <<nodeA[1], tmpB>> >> ELSE <<>>)

RECURSIVE RestrictedJoin(_, _, _, _)
RestrictedJoin(t, todo, dd, k) ==
    IF Len(todo) = 0 THEN [d |-> dd, raised |-> FALSE]
    ELSE LET node == Head(todo)
             ch == Children(t, node)
         IN  IF Len(ch) # 2 \/ ch[1] \notin DOMAIN dd \/ ch[2] \notin DOMAIN dd
             THEN [d |-> dd, raised |-> TRUE]
             ELSE LET paths == AllPaths(dd[ch[1]], dd[ch[2]])
                      newNodes == ConcatAll([q \in 1..Len(paths) |->
                          RestrictedPaths(paths[q][1], paths[q][2],
                                          ch[1], ch[2], k)])
                  IN  RestrictedJoin(t, Tail(todo),
                          StoreNodes(dd, node, dd[ch[1]], newNodes), k)

\* RestrictedSelect sorting the minimal scenarios by their gains
RestrictedSelect_gains(gl) ==
    LET tracer == [i \in 1..Len(gl) |-> Gains(gl[i]) + Losses(gl[i])]
        best == MinimalScenarios(gl, tracer)
    IN  sorted(best, [i \in 1..Len(best) |-> Gains(best[i])])[1]

\* RestrictedSelect returning a scenario of the most events
RestrictedSelect_longest(gl) ==
    LET tracer == [i \in 1..Len(gl) |-> 0 - (Gains(gl[i]) + Losses(gl[i]))]
        best == MinimalScenarios(gl, tracer)
    IN  sorted(best, [i \in 1..Len(best) |-> Len(best[i])])[1]

\* the minimal scenarios sorted by their length, the first returned
RestrictedSelect(gl) ==
    LET tracer == [i \in 1..Len(gl) |-> Gains(gl[i]) + Losses(gl[i])]
        best == MinimalScenarios(gl, tracer)
    IN  sorted(best, [i \in 1..Len(best) |-> Len(best[i])])[1]

RestrictedGLS(t, p, k) ==
    LET sub == Subtree(t, p)
        d0 == LeafStates(sub, p)
    IN  IF SingleOrigin(sub, d0) THEN Returned(d0, <<>>, << <<sub, 1>> >>)
        ELSE LET j == RestrictedJoin(t, OrderedNodes(t, sub), d0, k)
             IN  IF j.raised \/ sub \notin DOMAIN j.d THEN Raised(j.d, <<>>)
                 ELSE LET gl == GlsList(sub, j.d[sub])
                      IN  IF Len(gl) = 0 THEN Raised(j.d, gl)
                          ELSE Returned(j.d, gl, RestrictedSelect(gl))

(***************************************************************************)
(* get_AVSD, for the scenario of one character                             *)
(***************************************************************************)
\* the node named 'root'
Root(n) == <<1, n>>

\* list.index(x)
Index(s, x) == CHOOSE i \in 1..Len(s) : s[i] = x /\ \A j \in 1..(i - 1) : s[j] # x

\* all internal nodes, i.e. the nontips and also the root
AncestorNodes(t, n) ==
    LET ns == nontips(t, Root(n))
    IN  <<Root(n)>> \o sorted_reverse(ns, [i \in 1..Len(ns) |-> Len(tips(ns[i]))])

\* SortedGLS with the fewest tips first
SortedGLS_ascending(g) == sorted(g, [i \in 1..Len(g) |-> Len(tips(g[i][1]))])

\* the respective gls sorted by the number of tips of its nodes
SortedGLS(g) == sorted_reverse(g, [i \in 1..Len(g) |-> Len(tips(g[i][1]))])

\* assign the state of each event to all nodes of name.nontips()
RECURSIVE AssignStates(_, _, _, _)
AssignStates(t, nodes, row, g) ==
    IF Len(g) = 0 THEN row
    ELSE LET sub_tree_nodes == nontips(t, Head(g)[1])
             hit == {Index(nodes, sub_tree_nodes[i]) : i \in 1..Len(sub_tree_nodes)}
         IN  AssignStates(t, nodes,
                 [i \in 1..Len(row) |-> IF i \in hit THEN Head(g)[2] ELSE row[i]],
                 Tail(g))

AVSD(t, n, g) ==
    LET nodes == AncestorNodes(t, n)
        sg == SortedGLS(g)
        state == IF sg[1][2] = 1 /\ sg[1][1] = Root(n) THEN 1 ELSE 0
    IN  AssignStates(t, nodes, [i \in 1..Len(nodes) |-> state], sg)

(***************************************************************************)
(* The state machine: one solver call on a character, then the projection  *)
(* of its scenario on the ancestral nodes.                                 *)
(***************************************************************************)
Init ==
    /\ taxa \in 2..(MaxTaxa + 1)
    /\ tree \in InputTrees(taxa)
    /\ pap \in {p \in [1..taxa -> {0, 1}] : \E i \in 1..taxa : p[i] = 1}
    /\ \/ mode = "weighted" /\ ratio \in Ratios /\ restriction = 3
       \/ mode = "restriction" /\ ratio = <<1, 1>> /\ restriction \in Restrictions
    /\ d = <<>>
    /\ gls_list = <<>>
    /\ gls = <<>>
    /\ paps = <<>>
    /\ pc = "ready"
    /\ self_paps = <<>>
    /\ self_gls = <<>>
    /\ self_stats = <<>>
    /\ self_dists = <<>>
    /\ self_graph = <<>>
    /\ gPrm = <<>>
    /\ gMST = <<>>
    /\ ile = <<>>
    /\ last = <<>>
    /\ budget = 0

Finish(out) ==
    /\ d' = out.d
    /\ gls_list' = out.gls_list
    /\ gls' = out.gls
    /\ pc' = IF out.raised THEN "raised" ELSE "solved"
    /\ UNCHANGED <<taxa, tree, pap, mode, ratio, restriction, paps, object_vars>>

get_weighted_GLS ==
    /\ pc = "ready"
    /\ mode = "weighted"
    /\ Finish(WeightedGLS(tree, pap, ratio))

get_restricted_GLS ==
    /\ pc = "ready"
    /\ mode = "restriction"
    /\ Finish(RestrictedGLS(tree, pap, restriction))

get_AVSD ==
    /\ pc = "solved"
    /\ paps' = AVSD(tree, taxa, gls)
    /\ pc' = "projected"
    /\ UNCHANGED <<taxa, tree, pap, mode, ratio, restriction, d, gls_list, gls,
                   object_vars>>

Next == get_weighted_GLS \/ get_restricted_GLS \/ get_AVSD

Spec == Init /\ [][Next]_vars

\* ratios of get_weighted_GLS whose loss weighs more than the gain
LossRatios == {<<1, 2>>, <<1, 3>>}

\* the solver calls on the trees of every shape, the ladders of one more
\* tip left out, with the ratios of both kinds
InitTrees ==
    /\ taxa \in 2..MaxTaxa
    /\ tree \in InputTrees(taxa)
    /\ pap \in {p \in [1..taxa -> {0, 1}] : \E i \in 1..taxa : p[i] = 1}
    /\ \/ mode = "weighted" /\ ratio \in Ratios \cup LossRatios /\ restriction = 3
       \/ mode = "restriction" /\ ratio = <<1, 1>> /\ restriction \in Restrictions
    /\ d = <<>>
    /\ gls_list = <<>>
    /\ gls = <<>>
    /\ paps = <<>>
    /\ pc = "ready"
    /\ self_paps = <<>>
    /\ self_gls = <<>>
    /\ self_stats = <<>>
    /\ self_dists = <<>>
    /\ self_graph = <<>>
    /\ gPrm = <<>>
    /\ gMST = <<>>
    /\ ile = <<>>
    /\ last = <<>>
    /\ budget = 0

SpecTrees == InitTrees /\ [][Next]_vars

\* the calls of the two solvers alone, without the projection
NextSolve == get_weighted_GLS \/ get_restricted_GLS

SpecSolve == InitTrees /\ [][NextSolve]_vars

(***************************************************************************)
(* Properties of the returned scenarios.                                   *)
(***************************************************************************)
\* the solver has returned a scenario
Solved == pc \in {"solved", "projected"}

\* the scenario went through the joining of the nodes (no shortcut)
Joined == Solved /\ Len(gls_list) > 0

\* entries of the scenario g whose node dominates tip k
ListedAbove(g, k) == {i \in 1..Len(g) : Dominates(g[i][1], <<k, k>>)}

\* the states tip k gets when g is replayed top-down from state 0: the
\* events of the lowest listed nodes above the tip
ReplayStates(g, k) ==
    IF ListedAbove(g, k) = {} THEN {0}
    ELSE {g[i][2] : i \in {i \in ListedAbove(g, k) : \A j \in ListedAbove(g, k) :
                              g[i][1][2] - g[i][1][1] <= g[j][1][2] - g[j][1][1]}}

\* every tip under the LCA of the positive tips is positive
AllOnes == \A k \in Subtree(tree, pap)[1]..Subtree(tree, pap)[2] : pap[k] = 1

\* C1: replaying the returned GLS top-down (state 0 above the LCA, each
\* listed node switches to its event) yields pap on every tip of the tree.
C1_Reconstruction ==
    Solved => \A k \in 1..taxa : ReplayStates(gls, k) = {pap[k]}

C1_Witness ==
    /\ pc = "solved" /\ mode = "restriction" /\ Joined
    /\ Losses(gls) > 0 /\ Gains(gls) > 1 /\ Subtree(tree, pap) # Root(taxa)

\* C4: in weighted mode the cost of the returned GLS is at most
\* min(ones * gw, zeros * lw + gw), ones and zeros counted over all taxa.
C4_WeightedBound ==
    (Solved /\ mode = "weighted") =>
        LET ones == Cardinality({k \in 1..taxa : pap[k] = 1})
            zeros == Cardinality({k \in 1..taxa : pap[k] = 0})
            cost == ratio[1] * Gains(gls) + ratio[2] * Losses(gls)
        IN  cost <= ones * ratio[1] /\ cost <= zeros * ratio[2] + ratio[1]

C4_Witness ==
    /\ pc = "solved" /\ mode = "weighted" /\ Joined
    /\ Subtree(tree, pap) # Root(taxa)
    /\ ratio[1] * Gains(gls) + ratio[2] * Losses(gls)
           = Cardinality({k \in 1..taxa : pap[k] = 1}) * ratio[1]

\* C5: in restricted mode a GLS that went through the joining holds at most
\* restriction gains, and every history kept at a node has
\* committed gains + state <= restriction.
C5_RestrictedBound ==
    (Joined /\ mode = "restriction") =>
        /\ Gains(gls) <= restriction
        /\ \A n \in DOMAIN d : \A i \in 1..Len(d[n]) :
               Gains(d[n][i][2]) + d[n][i][1] <= restriction

C5_Witness ==
    /\ pc = "solved" /\ mode = "restriction" /\ Joined
    /\ Gains(gls) = restriction /\ restriction > 1

\* C6: the gain nodes of the returned GLS form an antichain of the tree.
C6_NoRedundantGain ==
    Solved => \A i, j \in 1..Len(gls) :
                 (i # j /\ gls[i][2] = 1 /\ gls[j][2] = 1)
                     => ~Dominates(gls[i][1], gls[j][1])

C6_Witness ==
    /\ pc = "solved" /\ Joined /\ Gains(gls) > 1 /\ Losses(gls) > 0
    /\ mode = "weighted"

\* C7: if every tip under the LCA of the positive tips has pap = 1, the
\* solver returns [(lca, 1)], whatever the ratio or the restriction.
C7_Shortcuts ==
    (pc # "ready" /\ AllOnes) => (Solved /\ gls = << <<Subtree(tree, pap), 1>> >>)

C7_Witness ==
    /\ pc = "solved" /\ AllOnes /\ mode = "restriction" /\ restriction = 0
    /\ gls = << <<Subtree(tree, pap), 1>> >>

\* cost of a scenario under the ratio of the run
WeightedCost(line) == ratio[1] * Gains(line) + ratio[2] * Losses(line)

\* the scenarios of gls_list with the minimal cost
MinCostCandidates ==
    {gls_list[i] : i \in {i \in 1..Len(gls_list) : \A j \in 1..Len(gls_list) :
                              WeightedCost(gls_list[i]) <= WeightedCost(gls_list[j])}}

\* Scenario B: the tree ((a,b),(c,d)), pap [1,0,0,1], weighted (1,1)
ScenarioB ==
    /\ taxa = 4
    /\ tree = {<<1, 4>>, <<1, 2>>, <<3, 4>>, <<1, 1>>, <<2, 2>>, <<3, 3>>, <<4, 4>>}
    /\ pap = <<1, 0, 0, 1>>
    /\ mode = "weighted" /\ ratio = <<1, 1>>

GainBased == << <<<<1, 1>>, 1>>, <<<<4, 4>>, 1>> >>
LossBased == << <<<<1, 4>>, 1>>, <<<<2, 2>>, 0>>, <<<<3, 3>>, 0>> >>

\* C8 as stated: in Scenario B both [(a,1),(d,1)] and [(root,1),(b,0),(c,0)]
\* are minimum-cost candidates and the loss-based one is returned.
C8_ScenarioB_Original ==
    (ScenarioB /\ Solved) =>
        /\ GainBased \in MinCostCandidates
        /\ LossBased \in MinCostCandidates
        /\ gls = LossBased

\* C8 amended: in Scenario B the loss-based scenario costs 3, above
\* maxWeight = 2, and never reaches the selector; [(a,1),(d,1)] (cost 2) is the
\* only candidate and is returned.
C8_ScenarioB ==
    (ScenarioB /\ Solved) =>
        /\ gls = GainBased
        /\ WeightedCost(GainBased) = 2 /\ WeightedCost(LossBased) = 3
        /\ \A i \in 1..Len(gls_list) : gls_list[i] = GainBased

C8_Witness == ScenarioB /\ pc = "solved" /\ Len(gls_list) = 1

\* Scenario A: the tree ((a,b),c), pap [1,0,1], weighted (1,1)
ScenarioA ==
    /\ taxa = 3
    /\ tree = {<<1, 3>>, <<1, 2>>, <<1, 1>>, <<2, 2>>, <<3, 3>>}
    /\ pap = <<1, 0, 1>>
    /\ mode = "weighted" /\ ratio = <<1, 1>>

\* C9: the weighted solver returns, among the scenarios of minimum cost that
\* reached the LCA, one with the fewest gains, and among those the first
\* emitted; Scenario A gives [(root,1),(b,0)].
C9_WeightedSelector ==
    /\ (Joined /\ mode = "weighted") =>
           \E i \in 1..Len(gls_list) :
               /\ gls_list[i] = gls
               /\ \A j \in 1..Len(gls_list) :
                      /\ WeightedCost(gls_list[i]) <= WeightedCost(gls_list[j])
                      /\ WeightedCost(gls_list[j]) = WeightedCost(gls_list[i])
                             => Gains(gls_list[i]) <= Gains(gls_list[j])
                      /\ (j < i /\ WeightedCost(gls_list[j]) = WeightedCost(gls_list[i]))
                             => Gains(gls_list[j]) > Gains(gls_list[i])
    /\ (ScenarioA /\ Solved) => gls = << <<<<1, 3>>, 1>>, <<<<2, 2>>, 0>> >>

\* the sort moved the returned scenario in front of an earlier candidate
C9_Witness ==
    /\ pc = "solved" /\ mode = "weighted" /\ Joined
    /\ \E j \in 1..Len(gls_list) :
           /\ WeightedCost(gls_list[j]) = WeightedCost(gls)
           /\ Gains(gls_list[j]) > Gains(gls)
           /\ \A i \in 1..j : gls_list[i] # gls

(***************************************************************************)
(* Cost minimality against the enumeration of alternative scenarios.       *)
(***************************************************************************)
SetGains(a) == Cardinality({x \in a : x[2] = 1})
SetLosses(a) == Cardinality({x \in a : x[2] = 0})
SetCost(a, r) == r[1] * SetGains(a) + r[2] * SetLosses(a)

\* The scenarios on the subtree of n, as sets of (node, event) pairs, that
\* give every tip below n its state of p when replayed from the state s
\* above n, list no node twice, put no gain below a gain without a loss
\* between them (open: the last event above n is a gain), hold at most g
\* gains and cost at most c under the ratio r.  Event 2 stands for no entry.
RECURSIVE Scenarios(_, _, _, _, _, _, _, _)
Scenarios(t, n, s, open, p, r, g, c) ==
    UNION {
        LET s2 == IF e = 2 THEN s ELSE e
            open2 == IF e = 2 THEN open ELSE e = 1
            g2 == IF e = 1 THEN g - 1 ELSE g
            c2 == IF e = 1 THEN c - r[1] ELSE IF e = 0 THEN c - r[2] ELSE c
            here == IF e = 2 THEN {} ELSE {<<n, e>>}
        IN  IF (e = 1 /\ open) \/ g2 < 0 \/ c2 < 0 THEN {}
            ELSE IF IsTip(n) THEN (IF s2 = p[n[1]] THEN {here} ELSE {})
            ELSE {(here \cup xy[1]) \cup xy[2] :
                     xy \in {xy \in Scenarios(t, Children(t, n)[1], s2, open2, p, r, g2, c2)
                                    \X Scenarios(t, Children(t, n)[2], s2, open2, p, r, g2, c2) :
                                /\ SetGains(xy[1]) + SetGains(xy[2]) <= g2
                                /\ SetCost(xy[1], r) + SetCost(xy[2], r) <= c2}}
        : e \in {0, 1, 2}}

\* C2: in weighted mode no scenario that reproduces pap, lists no node twice,
\* has no two gains on a lineage without an intervening loss and costs at
\* most maxWeight is strictly cheaper than the returned GLS.
C2_WeightedMinimality ==
    (Solved /\ mode = "weighted") =>
        \A a \in Scenarios(tree, Root(taxa), 0, FALSE, pap, ratio,
                           2 * taxa, WeightedCost(gls) - 1) :
            SetCost(a, ratio) > MaxWeight(pap, ratio)

\* C3: in restricted mode no scenario that reproduces pap, lists no node
\* twice, has no two gains on a lineage without an intervening loss and holds
\* at most restriction gains has fewer events than the returned GLS.
C3_RestrictedMinimality ==
    (Solved /\ mode = "restriction" /\ restriction >= 1) =>
        Scenarios(tree, Root(taxa), 0, FALSE, pap, <<1, 1>>,
                  restriction, Len(gls) - 1) = {}

(***************************************************************************)
(* Projection on the ancestral nodes.                                      *)
(***************************************************************************)
\* entries of the scenario g at internal nodes that dominate the node m
EntriesAbove(g, m) ==
    {i \in 1..Len(g) : ~IsTip(g[i][1]) /\ Dominates(g[i][1], m)}

\* C10: every GLS entry (name, event) at an internal node gives event to
\* every internal node of the subtree of name, name included, unless a
\* deeper entry overrides it.
C10_Projection ==
    pc = "projected" =>
        \A q \in 1..Len(paps) :
            LET m == AncestorNodes(tree, taxa)[q]
                above == EntriesAbove(gls, m)
            IN  \A i \in above :
                    (\A j \in above : Dominates(gls[j][1], gls[i][1]))
                        => paps[q] = gls[i][2]

(***************************************************************************)
(* The TreBor object: its dictionaries gls, stats, dists and graph, and    *)
(* the methods get_GLS, get_CVSD, get_AVSD, get_MLN and analyze.           *)
(*                                                                         *)
(* The characters self.cogs are numbered 1..Len(self_paps) in the order of *)
(* the list.  Files, plots and the graphics attributes of the graphs are   *)
(* left out.  A mode string is the string the source formats.              *)
(***************************************************************************)
\* at most MaxCogs non-singleton characters in the wordlist
MaxCogs == 3
\* get_MLN is called with the thresholds 1..MaxThreshold
MaxThreshold == 2
\* a session makes at most MaxCalls calls on the object
MaxCalls == 2

\* the tree of the dataset: (((((1,2),3),4),5),6)
DatasetTree == {<<k, k>> : k \in 1..6} \cup {<<1, k>> : k \in 2..6}

\* the profiles of the characters of the dataset, none of them a singleton
ProfileList == << <<1, 1, 0, 0, 0, 0>>, <<1, 0, 0, 1, 0, 0>>, <<1, 0, 0, 0, 0, 1>>,
                  <<1, 0, 0, 1, 0, 1>> >>

Profiles == {ProfileList[i] : i \in DOMAIN ProfileList}

\* a dataset of six characters: the words of one are found in the taxa 1
\* and 4, of one in 1, 4 and 6, of two in 1 and 6, of two in 4 and 6
DupBase == << <<1, 0, 0, 1, 0, 0>>, <<1, 0, 0, 1, 0, 1>>, <<1, 0, 0, 0, 0, 1>>,
              <<1, 0, 0, 0, 0, 1>>, <<0, 0, 0, 1, 0, 1>>, <<0, 0, 0, 1, 0, 1>> >>

\* characters whose words are found in both taxa of a clade and in taxa
\* outside of it: in 1, 2 and 4, in 1, 2, 5 and 6, in 1, 2, 4 and 6
CladeList == << <<1, 1, 0, 1, 0, 0>>, <<1, 1, 0, 0, 1, 1>>, <<1, 1, 0, 1, 0, 1>> >>

\* the profiles of all the datasets
AllProfiles ==
    Profiles \cup {DupBase[c] : c \in DOMAIN DupBase}
             \cup {CladeList[c] : c \in DOMAIN CladeList}

\* a dictionary of the one entry
Put_only(dict, k, v) == (k :> v)

\* dict[k] = v
Put(dict, k, v) == (k :> v) @@ dict

\* nx.Graph(): the set of nodes and the adjacency, edge[<<u, v>>] being the
\* attributes of the edge between u and v, the same for <<v, u>>
Graph(nodes, edges) == [class |-> "Graph", node |-> nodes, edge |-> edges]

\* G.add_edge(u, v, **data): the attributes of an edge that is already
\* there are updated
add_edge(G, u, v, data) ==
    LET old == IF <<u, v>> \in DOMAIN G.edge THEN G.edge[<<u, v>>] ELSE <<>>
        new == data @@ old
    IN  Graph(G.node \cup {u, v}, (<<u, v>> :> new) @@ (<<v, u>> :> new) @@ G.edge)

\* the edges of the tree, in both directions
TreeEdges(t) ==
    UNION {{<<n, Children(t, n)[i]>>, <<Children(t, n)[i], n>>} :
              n \in {m \in t : ~IsTip(m)}, i \in 1..2}

\* nx.read_gml(self.dataset+'.gml'): the layout graph of the tree
read_gml(t) == Graph(t, [e \in TreeEdges(t) |-> [graphics |-> "Line"]])

\* the graph with the nodes and the edges of the template, labelled vertical
FromTemplate(t) ==
    Graph(t, [e \in TreeEdges(t) |-> [graphics |-> "Line", label |-> "vertical"]])

(***************************************************************************)
(* get_GLS                                                                 *)
(***************************************************************************)
\* the modes get_GLS accepts
ValidMode_any(m) == TRUE

ValidMode(m) == m \in {"weighted", "w", "r", "restriction"}

\* define alias for mode
Alias(m) == IF m \in {"w", "weighted"} THEN "weighted" ELSE "restriction"

\* create a named string for the mode
ModeString(m, r, k) ==
    IF m = "weighted" THEN "w-" \o ToString(r[1]) \o "-" \o ToString(r[2])
    ELSE "r-" \o ToString(k)

\* the arguments of the calls of get_GLS
GLSArgs == {<<"weighted", <<1, 1>>, 3>>, <<"w", <<2, 1>>, 3>>,
            <<"restriction", <<1, 1>>, 3>>, <<"r", <<1, 1>>, 0>>,
            <<"borrowing", <<1, 1>>, 3>>}

\* the solver call on one character
SolverCall(t, m, p, r, k) ==
    IF m = "weighted" THEN WeightedGLS(t, p, r) ELSE RestrictedGLS(t, p, k)

\* the solver calls of the model on the tree of the dataset, by their
\* arguments
SolverCalls ==
    [a \in {<<Alias(b[1]), b[2], b[3]>> : b \in GLSArgs}, p \in AllProfiles |->
        SolverCall(DatasetTree, a[1], p, a[2], a[3])]

SolveCog(m, p, r, k) == SolverCalls[<<m, r, k>>, p]

\* noo = sum([t[1] for t in gls])
Noo(g) == SumSeq(EventsOf(g))

\* max(list)
MaxOf(S) == CHOOSE x \in S : \A y \in S : y <= x

\* the loop over self.cogs, res[c] being what the solver call on c gives:
\* the entries of self.gls[mode_string] when the loop ends, and whether a
\* solver call raised; the call that raises ends the loop and get_GLS
SolveLoop(res) ==
    LET bad == {c \in 1..Len(res) : res[c].raised}
        done == IF bad = {} THEN Len(res) ELSE MinOf(bad) - 1
    IN  [entries |-> [c \in 1..done |-> <<res[c].gls, Noo(res[c].gls)>>],
         raised |-> bad # {}]

\* the statistics of a completed run; ano is the quotient <<sum, len>>
RunStats(m, entries, r, k) ==
    [mode |-> m, dataset |-> "dataset",
     ano |-> <<SumSeq([c \in 1..Len(entries) |-> entries[c][2]]), Len(entries)>>,
     mno |-> MaxOf({entries[c][2] : c \in 1..Len(entries)}),
     ratio |-> r, restriction |-> k]

\* the dictionaries of the object
Object(g, s, di, gr) == [gls |-> g, stats |-> s, dists |-> di, graph |-> gr]

\* the outcome of a call: the object after it and the exception raised
Outcome(o, raised) == [self |-> o, raised |-> raised]

\* self.graph is created as a dictionary
Dict(items) == [class |-> "dict", items |-> items]

\* get_GLS from the loop on: the run is stored under its mode string
StoreRun(o, t, m, r, k, output_gml, loop) ==
    IF loop.raised
    THEN Outcome(Object(Put(o.gls, ModeString(m, r, k), loop.entries),
                        Put(o.stats, ModeString(m, r, k),
                            [mode |-> m, dataset |-> "dataset"]),
                        o.dists, o.graph),
                 "SolverError")
    ELSE Outcome(Object(Put(o.gls, ModeString(m, r, k), loop.entries),
                        Put(o.stats, ModeString(m, r, k),
                            RunStats(m, loop.entries, r, k)),
                        o.dists,
                        IF output_gml THEN read_gml(t) ELSE o.graph),
                 "")

\* get_GLS(mode = m0, ratio = r, restriction = k, output_gml = output_gml)
GLSCall(o, t, ps, m0, r, k, output_gml) ==
    IF ~ValidMode(m0) THEN Outcome(o, "ValueError")
    ELSE StoreRun(o, t, Alias(m0), r, k, output_gml,
                  SolveLoop([c \in 1..Len(ps) |-> SolveCog(Alias(m0), ps[c], r, k)]))

(***************************************************************************)
(* get_CVSD and get_AVSD                                                   *)
(***************************************************************************)
\* the number of characters of self.cogs each taxon has
CVSD(ps, n) == [i \in 1..n |-> Cardinality({c \in 1..Len(ps) : ps[c][i] = 1})]

CVSDCall(o, ps, n) ==
    Outcome([o EXCEPT !.dists = Put(@, "contemporary", CVSD(ps, n))], "")

\* size = [sum([p[i] for p in paps]) for i in range(len(nodes))]
AVSDSize(t, n, entries) ==
    LET rows == [c \in 1..Len(entries) |-> AVSD(t, n, entries[c][1])]
    IN  [i \in 1..Len(AncestorNodes(t, n)) |->
            SumSeq([c \in 1..Len(entries) |-> rows[c][i]])]

AVSDCall(o, t, n, mode_string) ==
    IF mode_string \notin DOMAIN o.gls THEN Outcome(o, "KeyError")
    ELSE Outcome([o EXCEPT !.dists = Put(@, mode_string,
                                         AVSDSize(t, n, o.gls[mode_string]))], "")

(***************************************************************************)
(* get_MLN                                                                 *)
(***************************************************************************)
\* Origins taking the node of every event, the losses included
Origins_events(g) == [i \in 1..Len(g) |-> g[i][1]]

\* oris = [x[0] for x in gls if x[1] == 1]
Origins(g) ==
    LET gains == SelectSeq(g, LAMBDA x : x[2] = 1)
    IN  [i \in 1..Len(gains) |-> gains[i][1]]

\* the pairs (oris[i], oris[j]), i < j, in the order of the two loops
RECURSIVE PairsOf(_)
PairsOf(oris) ==
    IF Len(oris) < 2 THEN <<>>
    ELSE [j \in 1..(Len(oris) - 1) |-> <<oris[1], oris[j + 1]>>] \o PairsOf(Tail(oris))

HasWeight(G, u, v) == <<u, v>> \in DOMAIN G.edge /\ "weight" \in DOMAIN G.edge[<<u, v>>]

Increment_twice(G, u, v) ==
    LET new == [G.edge[<<u, v>>] EXCEPT !.weight = @ + 2]
    IN  Graph(G.node, (<<u, v>> :> new) @@ (<<v, u>> :> new) @@ G.edge)

\* G.edge[u][v]['weight'] += 1: the attributes are those of <<v, u>> too
Increment(G, u, v) ==
    LET new == [G.edge[<<u, v>>] EXCEPT !.weight = @ + 1]
    IN  Graph(G.node, (<<u, v>> :> new) @@ (<<v, u>> :> new) @@ G.edge)

\* try: gPrm.edge[oriA][oriB]['weight'] += 1, except: add the edge
Connect_reset(G, u, v) == add_edge(G, u, v, [weight |-> 1])

Connect(G, u, v) ==
    IF HasWeight(G, u, v) THEN Increment(G, u, v)
    ELSE add_edge(G, u, v, [weight |-> 1])

RECURSIVE ConnectAll(_, _)
ConnectAll(G, pairs) ==
    IF Len(pairs) = 0 THEN G
    ELSE ConnectAll(Connect(G, Head(pairs)[1], Head(pairs)[2]), Tail(pairs))

\* step 1: the primary graph, the characters taken in the order given
RECURSIVE PrimaryGraph(_, _, _)
PrimaryGraph(G, scenarios, order) ==
    IF Len(order) = 0 THEN G
    ELSE PrimaryGraph(ConnectAll(G, PairsOf(Origins(scenarios[Head(order)][1]))),
                      scenarios, Tail(order))

\* the undirected edges of a graph on the nodes V
EdgesOn(V) == {{u, v} : u, v \in V} \ {{u} : u \in V}

\* the nodes a set of edges connects to the nodes of R
RECURSIVE Reach(_, _)
Reach(R, T) ==
    LET more == R \cup UNION {e \in T : e \cap R # {}}
    IN  IF more = R THEN R ELSE Reach(more, T)

SpanningTrees(V) ==
    {T \in SUBSET EdgesOn(V) :
        /\ Cardinality(T) = Cardinality(V) - 1
        /\ \A u \in V : Reach({u}, T) = V}

\* the weight of the primary graph between the two nodes of e
PrimaryWeight(G, e) ==
    LET u == CHOOSE u \in e : TRUE
        v == CHOOSE v \in e : v # u
    IN  G.edge[<<u, v>>].weight

RECURSIVE Product(_, _)
Product(G, E) ==
    IF E = {} THEN 1
    ELSE LET e == CHOOSE e \in E : TRUE
         IN  PrimaryWeight(G, e) * Product(G, E \ {e})

RECURSIVE TreeWeight(_, _, _)
\* the sum of w = 1000000 / weight over the edges of T, in units of
\* 1 / scale, scale being a common multiple of the weights
TreeWeight(G, T, scale) ==
    IF T = {} THEN 0
    ELSE LET e == CHOOSE e \in T : TRUE
         IN  1000000 * (scale \div PrimaryWeight(G, e)) + TreeWeight(G, T \ {e}, scale)

\* MinimumSpanningTrees with the heaviest trees in place of the lightest
MinimumSpanningTrees_heaviest(G, oris) ==
    LET V == {oris[i] : i \in 1..Len(oris)}
        scale == Product(G, EdgesOn(V))
        trees == SpanningTrees(V)
        weight == [T \in trees |-> TreeWeight(G, T, scale)]
    IN  {T \in trees : \A S \in trees : weight[T] >= weight[S]}

\* nx.minimum_spanning_tree(gWeights): the trees it can return for the
\* complete graph on the origins, the order of equal weights being open
MinimumSpanningTrees(G, oris) ==
    LET V == {oris[i] : i \in 1..Len(oris)}
        scale == Product(G, EdgesOn(V))
        trees == SpanningTrees(V)
        weight == [T \in trees |-> TreeWeight(G, T, scale)]
    IN  {T \in trees : \A S \in trees : weight[T] <= weight[S]}

\* the origin lists of the characters that get a graph of weights
OriginLists(scenarios) ==
    {o \in {Origins(scenarios[c][1]) : c \in DOMAIN scenarios} : Len(o) >= 2}

\* what the calls of nx.minimum_spanning_tree of one get_MLN can return:
\* graphs built alike get the same tree
MSTPicks(G, scenarios) ==
    LET lists == OriginLists(scenarios)
        msts == [o \in lists |-> MinimumSpanningTrees(G, o)]
    IN  {pick \in [lists -> UNION {msts[o] : o \in lists}] :
            \A o \in lists : pick[o] \in msts[o]}

\* the lateral events of a character
LateralEvents_all(pick, g) ==
    EdgesOn({Origins(g)[i] : i \in 1..Len(Origins(g))})

LateralEvents(pick, g) == IF Len(Origins(g)) >= 2 THEN pick[Origins(g)] ELSE {}

\* try: weight += 1 and cogs += [cog], except: add the edge
Overlay_once(M, e, cog) ==
    IF e \in DOMAIN M THEN M ELSE (e :> [weight |-> 1, cogs |-> <<cog>>]) @@ M

Overlay_last(M, e, cog) ==
    IF e \in DOMAIN M
    THEN [M EXCEPT ![e] = [weight |-> @.weight + 1, cogs |-> <<cog>>]]
    ELSE (e :> [weight |-> 1, cogs |-> <<cog>>]) @@ M

Overlay(M, e, cog) ==
    IF e \in DOMAIN M
    THEN [M EXCEPT ![e] = [weight |-> @.weight + 1, cogs |-> Append(@.cogs, cog)]]
    ELSE (e :> [weight |-> 1, cogs |-> <<cog>>]) @@ M

RECURSIVE OverlayAll(_, _, _)
OverlayAll(M, E, cog) ==
    IF E = {} THEN M
    ELSE LET e == CHOOSE e \in E : TRUE
         IN  OverlayAll(Overlay(M, e, cog), E \ {e}, cog)

\* step 2: the graph of the lateral edges, edge -> weight and cogs
RECURSIVE LateralGraph(_, _, _, _)
LateralGraph(M, scenarios, order, pick) ==
    IF Len(order) = 0 THEN M
    ELSE LateralGraph(OverlayAll(M, LateralEvents(pick, scenarios[Head(order)][1]),
                                 Head(order)),
                      scenarios, Tail(order), pick)

\* ','.join([str(i) for i in data['cogs']])
RECURSIVE JoinCogs(_)
JoinCogs(cogs) ==
    IF Len(cogs) = 0 THEN ""
    ELSE IF Len(cogs) = 1 THEN ToString(cogs[1])
    ELSE ToString(cogs[1]) \o "," \o JoinCogs(Tail(cogs))

\* check for threshold
Passes_all(w, threshold) == TRUE

Passes(w, threshold) == w >= threshold

\* the edges of gMST are added to gOut when they pass the threshold and
\* gOut has no edge between the two nodes
RECURSIVE AddHorizontal(_, _, _, _)
AddHorizontal(G, M, E, threshold) ==
    IF E = {} THEN G
    ELSE LET e == CHOOSE e \in E : TRUE
             u == CHOOSE u \in e : TRUE
             v == CHOOSE v \in e : v # u
             data == [weight |-> M[e].weight, cogs |-> JoinCogs(M[e].cogs),
                      label |-> "horizontal"]
         IN  AddHorizontal(IF Passes(M[e].weight, threshold) /\ <<u, v>> \notin DOMAIN G.edge
                           THEN add_edge(G, u, v, data) ELSE G,
                           M, E \ {e}, threshold)

\* the graphs of one call: scenarios taken in the order given, the spanning
\* trees as picked
MLNGraphs(t, scenarios, order, pick, threshold) ==
    LET P == PrimaryGraph(FromTemplate(t), scenarios, order)
        M == LateralGraph(<<>>, scenarios, order, pick)
    IN  [gPrm |-> P, gMST |-> M,
         ile |-> [c \in DOMAIN scenarios |-> LateralEvents(pick, scenarios[c][1])],
         gOut |-> AddHorizontal(FromTemplate(t), M, DOMAIN M, threshold)]

\* self.graph[mode_string] = gOut
StoreGraph(graph, mode_string, gOut) == Dict(Put(graph.items, mode_string, gOut))

\* get_MLN(mode_string, threshold), the characters of the scenarios taken in
\* the given order and the spanning trees as picked; the graphs are those of
\* the call, none when the scenarios are not found
MLNCall(o, t, mode_string, threshold, order, pick) ==
    IF mode_string \notin DOMAIN o.gls
    THEN [self |-> o, raised |-> "KeyError", gPrm |-> <<>>, gMST |-> <<>>, ile |-> <<>>]
    ELSE LET g == MLNGraphs(t, o.gls[mode_string], order, pick, threshold)
             raised == IF DOMAIN g.gMST = {} THEN "ValueError"
                       ELSE IF o.graph.class # "dict" THEN "TypeError"
                       ELSE ""
         IN  [self |-> IF raised = ""
                       THEN [o EXCEPT !.graph = StoreGraph(@, mode_string, g.gOut)]
                       ELSE o,
              raised |-> raised, gPrm |-> g.gPrm, gMST |-> g.gMST, ile |-> g.ile]

(***************************************************************************)
(* analyze                                                                 *)
(***************************************************************************)
\* define a default set of runs
DefaultRuns == << <<"restriction", 3>> >>

\* the call of get_GLS for one run of the list
RunCall(o, t, ps, run, output_gml) ==
    IF run[1] \in {"weighted", "restriction"}
    THEN GLSCall(o, t, ps, run[1],
                 IF run[1] = "weighted" THEN run[2] ELSE <<1, 1>>,
                 IF run[1] = "restriction" THEN run[2] ELSE 3,
                 output_gml)
    ELSE Outcome(o, "")

\* carry out the various analyses; a call that raises ends analyze
RECURSIVE RunAll(_, _, _, _, _)
RECURSIVE RunRest(_, _, _, _, _)
RunAll(o, t, ps, runs, output_gml) ==
    IF Len(runs) = 0 THEN Outcome(o, "")
    ELSE RunRest(RunCall(o, t, ps, Head(runs), output_gml), t, ps, Tail(runs), output_gml)

RunRest(out, t, ps, runs, output_gml) ==
    IF out.raised # "" THEN out ELSE RunAll(out.self, t, ps, runs, output_gml)

\* for m in modes: self.get_AVSD(m)
RECURSIVE AVSDAll(_, _, _, _)
AVSDAll(o, t, n, modes) ==
    IF modes = {} THEN o
    ELSE LET m == CHOOSE m \in modes : TRUE
         IN  AVSDAll(AVSDCall(o, t, n, m).self, t, n, modes \ {m})

\* calculate the different distributions, after the runs
Distributions(out, t, ps, n) ==
    IF out.raised # "" THEN out
    ELSE Outcome(AVSDAll(CVSDCall(out.self, ps, n).self, t, n, DOMAIN out.self.gls), "")

AnalyzeCall(o, t, ps, n, runs, output_gml) ==
    Distributions(RunAll(o, t, ps, runs, output_gml), t, ps, n)

(***************************************************************************)
(* The state machine of the object: the calls of a session.                *)
(***************************************************************************)
\* the record of a call: the method, its arguments, the exception raised
Call(op, args, raised) == [op |-> op, args |-> args, raised |-> raised]

\* the object as the variables hold it
Self == Object(self_gls, self_stats, self_dists, self_graph)

\* the wordlists: up to MaxCogs characters, in the order of ProfileList
\* (get_MLN takes the characters in every order)
Wordlists ==
    UNION {{[c \in 1..n |-> ProfileList[ix[c]]] :
               ix \in {f \in [1..n -> DOMAIN ProfileList] :
                          \A c \in 1..(n - 1) : f[c] <= f[c + 1]}} :
           n \in 1..MaxCogs}

\* the state after __init__, calls being the number of calls to come
Created(wordlists, calls) ==
    /\ tree = DatasetTree
    /\ taxa = Cardinality({n \in DatasetTree : IsTip(n)})
    /\ pap = <<>>
    /\ mode = ""
    /\ ratio = <<1, 1>>
    /\ restriction = 3
    /\ d = <<>>
    /\ gls_list = <<>>
    /\ gls = <<>>
    /\ paps = <<>>
    /\ pc = ""
    /\ self_paps \in wordlists
    /\ self_gls = <<>>
    /\ self_stats = <<>>
    /\ self_dists = <<>>
    /\ self_graph = Dict(<<>>)
    /\ gPrm = <<>>
    /\ gMST = <<>>
    /\ ile = <<>>
    /\ last = Call("__init__", <<>>, "")
    /\ budget = calls

\* the object after a call
Return(op, args, out) ==
    /\ self_gls' = out.self.gls
    /\ self_stats' = out.self.stats
    /\ self_dists' = out.self.dists
    /\ self_graph' = out.self.graph
    /\ last' = Call(op, args, out.raised)
    /\ budget' = budget - 1
    /\ UNCHANGED <<taxa, tree, solver_vars, self_paps>>

\* the mode strings get_AVSD and get_MLN are called with
MLNModes == DOMAIN self_gls \cup {"w-2-1"}

get_GLS ==
    /\ budget > 0
    /\ \E a \in GLSArgs, output_gml \in BOOLEAN :
          Return("get_GLS", <<a[1], a[2], a[3], output_gml>>,
                 GLSCall(Self, tree, self_paps, a[1], a[2], a[3], output_gml))
    /\ UNCHANGED <<gPrm, gMST, ile>>

get_CVSD ==
    /\ budget > 0
    /\ Return("get_CVSD", <<>>, CVSDCall(Self, self_paps, taxa))
    /\ UNCHANGED <<gPrm, gMST, ile>>

get_AVSD_mode ==
    /\ budget > 0
    /\ \E mode_string \in MLNModes :
          Return("get_AVSD", <<mode_string>>, AVSDCall(Self, tree, taxa, mode_string))
    /\ UNCHANGED <<gPrm, gMST, ile>>

\* the orders scenarios.items() yields the keys 1..n in: any order of up to
\* MaxCogs characters, the order of insertion and its reverse of more
Orders(n) ==
    IF n <= MaxCogs THEN Permutations(1..n)
    ELSE {[i \in 1..n |-> i], [i \in 1..n |-> n + 1 - i]}

\* the order of scenarios.items() and the trees of equal weight are open
MLN(mode_string, threshold) ==
    LET scenarios == IF mode_string \in DOMAIN self_gls THEN self_gls[mode_string]
                     ELSE <<>>
    IN  \E order \in Orders(Len(scenarios)) :
           \E pick \in MSTPicks(PrimaryGraph(FromTemplate(tree), scenarios, order),
                                scenarios) :
              LET out == MLNCall(Self, tree, mode_string, threshold, order, pick)
              IN  /\ Return("get_MLN", <<mode_string, threshold, order>>, out)
                  /\ gPrm' = out.gPrm
                  /\ gMST' = out.gMST
                  /\ ile' = out.ile

get_MLN ==
    /\ budget > 0
    /\ \E mode_string \in MLNModes, threshold \in 1..MaxThreshold :
          MLN(mode_string, threshold)

analyze ==
    /\ budget > 0
    /\ \E output_gml \in BOOLEAN :
          Return("analyze", <<DefaultRuns, output_gml>>,
                 AnalyzeCall(Self, tree, self_paps, taxa, DefaultRuns, output_gml))
    /\ UNCHANGED <<gPrm, gMST, ile>>

\* a run of get_GLS followed by the network of the run, on every wordlist
InitMLN == Created(Wordlists, 2)

NextMLN == get_GLS \/ get_MLN

SpecMLN == InitMLN /\ [][NextMLN]_vars

\* the wordlists with one more character, whose words are found in the
\* taxa of a character of w
Extended(w) == {Append(w, w[c]) : c \in DOMAIN w}

\* the same two calls on the wordlists that have a character twice
InitDup ==
    Created(UNION {Extended(w) : w \in {v \in Wordlists : Len(v) < MaxCogs} \cup {DupBase}},
            2)

SpecDup == InitDup /\ [][NextMLN]_vars

\* the same two calls on the wordlists of the characters of CladeList, one
\* to three of them in the order of the list
InitClade ==
    Created({w \in UNION {[1..n -> {CladeList[c] : c \in DOMAIN CladeList}] : n \in 1..3} :
                \A i \in 1..(Len(w) - 1) :
                    \E a, b \in DOMAIN CladeList :
                        a <= b /\ w[i] = CladeList[a] /\ w[i + 1] = CladeList[b]},
            2)

SpecClade == InitClade /\ [][NextMLN]_vars

\* sessions of MaxCalls calls in any order, on the wordlists of one and of
\* two equal characters
InitObj == Created({w \in Wordlists : \A c \in DOMAIN w : w[c] = w[1] /\ Len(w) <= 2},
                   MaxCalls)

NextObj == get_GLS \/ get_CVSD \/ get_AVSD_mode \/ get_MLN \/ analyze

SpecObj == InitObj /\ [][NextObj]_vars

\* the test script: tr.analyze(plot_dists=True), then tr.get_MLN('w-2-1')
testTrebor_analyze ==
    /\ last.op = "__init__"
    /\ Return("analyze", <<DefaultRuns, FALSE>>,
              AnalyzeCall(Self, tree, self_paps, taxa, DefaultRuns, FALSE))
    /\ UNCHANGED <<gPrm, gMST, ile>>

testTrebor_get_MLN ==
    /\ last.op = "analyze"
    /\ last.raised = ""
    /\ MLN("w-2-1", 1)

InitScript == Created(Wordlists, 2)

NextScript == testTrebor_analyze \/ testTrebor_get_MLN

SpecScript == InitScript /\ [][NextScript]_vars

(***************************************************************************)
(* Properties of the graphs of get_MLN.                                    *)
(***************************************************************************)
\* the last call was get_MLN and it found its scenarios
MLNBuilt == last.op = "get_MLN" /\ last.raised # "KeyError"

\* the scenarios of the last call of get_MLN
LastScenarios == self_gls[last.args[1]]

\* the scenario g has a gain at the node u
IsGain(g, u) == \E i \in 1..Len(g) : g[i] = <<u, 1>>

\* the number of characters that have gains at both u and v
CoOrigin(scenarios, u, v) ==
    Cardinality({c \in DOMAIN scenarios :
                    IsGain(scenarios[c][1], u) /\ IsGain(scenarios[c][1], v)})

\* the weight of the primary graph from u to v, 0 when there is none
WeightOf(G, u, v) == IF HasWeight(G, u, v) THEN G.edge[<<u, v>>].weight ELSE 0

\* C11: after step 1 of get_MLN the weight of the primary graph between two
\* distinct tree nodes u and v is, in both directions, the number of
\* characters whose scenario has a gain at u and a gain at v; a pair no
\* character has carries no weight, and no node has a weighted self-loop.
C11_PrimaryGraph ==
    MLNBuilt =>
        \A u, v \in tree :
            IF u = v THEN ~HasWeight(gPrm, u, u)
            ELSE LET n == CoOrigin(LastScenarios, u, v)
                 IN  /\ HasWeight(gPrm, u, v) <=> n > 0
                     /\ WeightOf(gPrm, u, v) = n
                     /\ WeightOf(gPrm, v, u) = n

\* three characters with the origin sets {A,B}, {A,B}, {A,C}
C11_Witness ==
    /\ MLNBuilt
    /\ \E a, b, c \in tree :
          /\ Cardinality({a, b, c}) = 3
          /\ WeightOf(gPrm, a, b) = 2
          /\ WeightOf(gPrm, a, c) = 1
          /\ ~HasWeight(gPrm, b, c)

\* the gain nodes of a scenario
OriginSet(g) == {Origins(g)[i] : i \in 1..Len(Origins(g))}

\* C12: for every character c whose scenario has at least two gain nodes,
\* ile[c] has exactly |O_c| - 1 edges, all between nodes of O_c, and they
\* connect O_c (a spanning tree on O_c); a character with fewer than two
\* gain nodes has no lateral event.
C12_SpanningTree ==
    MLNBuilt =>
        \A c \in DOMAIN LastScenarios :
            LET O == OriginSet(LastScenarios[c][1])
            IN  IF Len(Origins(LastScenarios[c][1])) >= 2
                THEN /\ Cardinality(ile[c]) = Len(Origins(LastScenarios[c][1])) - 1
                     /\ \A e \in ile[c] : e \subseteq O /\ Cardinality(e) = 2
                     /\ \A u \in O : Reach({u}, ile[c]) = O
                ELSE ile[c] = {}

\* a character with three gain nodes next to one with a single gain node
C12_Witness ==
    /\ MLNBuilt
    /\ \E c, b \in DOMAIN LastScenarios :
          /\ Len(Origins(LastScenarios[c][1])) = 3
          /\ Cardinality(ile[c]) = 2
          /\ Len(Origins(LastScenarios[b][1])) = 1
          /\ ile[b] = {}

\* the characters whose lateral events contain the edge e
Carriers(e) == {c \in DOMAIN ile : e \in ile[c]}

\* C13: after step 2 of get_MLN every edge of the lateral graph has a weight
\* equal to the number of entries of its cogs, cogs names no character
\* twice, and both are the number of characters whose spanning tree has the
\* edge.
C13_LateralWeights ==
    MLNBuilt =>
        \A e \in DOMAIN gMST :
            /\ gMST[e].weight = Len(gMST[e].cogs)
            /\ \A i, j \in 1..Len(gMST[e].cogs) :
                   gMST[e].cogs[i] = gMST[e].cogs[j] => i = j
            /\ {gMST[e].cogs[i] : i \in 1..Len(gMST[e].cogs)} = Carriers(e)
            /\ gMST[e].weight = Cardinality(Carriers(e))

\* the origin sets {A,B}, {A,B}, {A,C}: weight 2 on {A,B}, 1 on {A,C}
C13_Witness ==
    /\ MLNBuilt
    /\ Cardinality(DOMAIN ile) = 3
    /\ \A x \in DOMAIN ile : Cardinality(ile[x]) = 1
    /\ \E a, b, c \in tree :
          /\ Cardinality({a, b, c}) = 3
          /\ DOMAIN gMST = {{a, b}, {a, c}}
          /\ gMST[{a, b}].weight = 2
          /\ gMST[{a, c}].weight = 1

(***************************************************************************)
(* A character that is twice in the dictionary.                            *)
(***************************************************************************)
\* the pairs c, c' of characters of the scenarios with the same GLS, c' the
\* one entered later
Duplicates ==
    {x \in (DOMAIN LastScenarios) \X (DOMAIN LastScenarios) :
        x[1] < x[2] /\ LastScenarios[x[1]] = LastScenarios[x[2]]}

\* the dictionary without the character c
Without(scenarios, c) == [x \in DOMAIN scenarios \ {c} |-> scenarios[x]]

\* the order the other characters were taken in
RECURSIVE OrderWithout(_, _)
OrderWithout(order, c) ==
    IF Len(order) = 0 THEN <<>>
    ELSE IF Head(order) = c THEN OrderWithout(Tail(order), c)
    ELSE <<Head(order)>> \o OrderWithout(Tail(order), c)

\* the primary graph get_MLN builds of the dictionary without c
ReducedPrm(c) ==
    PrimaryGraph(FromTemplate(tree), Without(LastScenarios, c),
                 OrderWithout(last.args[3], c))

\* the spanning trees get_MLN can get for the dictionary without c
ReducedPicks(c) == MSTPicks(ReducedPrm(c), Without(LastScenarios, c))

\* the lateral graph get_MLN builds of the dictionary without c
ReducedMST(c, pick) ==
    LateralGraph(<<>>, Without(LastScenarios, c), OrderWithout(last.args[3], c), pick)

LateralWeight(M, e) == IF e \in DOMAIN M THEN M[e].weight ELSE 0

CogSet(M, e) ==
    IF e \in DOMAIN M THEN {M[e].cogs[i] : i \in 1..Len(M[e].cogs)} ELSE {}

\* the primary graph has 1 more than R on the pairs of origins of c, and
\* the weights of R everywhere else
PrimaryGainsOne(R, c) ==
    \A e \in DOMAIN gPrm.edge \cup DOMAIN R.edge
              \cup (OriginSet(LastScenarios[c][1]) \X OriginSet(LastScenarios[c][1])) :
        WeightOf(gPrm, e[1], e[2]) =
            WeightOf(R, e[1], e[2])
            + (IF e[1] # e[2] /\ {e[1], e[2]} \subseteq OriginSet(LastScenarios[c][1])
               THEN 1 ELSE 0)

\* every edge of the tree of c has 1 more weight than in M, and c more
LateralGainsOne(M, c) ==
    \A e \in ile[c] :
        /\ LateralWeight(gMST, e) = LateralWeight(M, e) + 1
        /\ CogSet(gMST, e) = CogSet(M, e) \cup {c}
        /\ c \notin CogSet(M, e)

\* the trees of pick are those the other characters have in the last call
SameTrees(pick, c) ==
    \A x \in DOMAIN ile \ {c} : LateralEvents(pick, LastScenarios[x][1]) = ile[x]

\* C14 as stated: when the dictionary has c' with the GLS of c, the graphs
\* of get_MLN differ from those of the dictionary without c' by 1 of primary
\* weight on every pair of origins of c, c and c' have the same edges, and
\* each of these edges has exactly 1 more lateral weight and the entry c',
\* for some tree get_MLN can pick for the other characters
C14_Original ==
    MLNBuilt =>
        \A x \in Duplicates :
            /\ PrimaryGainsOne(ReducedPrm(x[2]), x[2])
            /\ ile[x[1]] = ile[x[2]]
            /\ \E pick \in ReducedPicks(x[2]) :
                   LateralGainsOne(ReducedMST(x[2], pick), x[2])

\* C14, amended: when the dictionary has c' with the GLS of c, the primary
\* graph has exactly 1 more weight on every pair of origins of c and the
\* same weight elsewhere, c and c' have the same edges, each of them has
\* both c and c' among its cogs, c' once, and it has exactly 1 more weight
\* and the entry c' whenever the other characters keep their trees
C14_Duplicate ==
    MLNBuilt =>
        \A x \in Duplicates :
            /\ PrimaryGainsOne(ReducedPrm(x[2]), x[2])
            /\ ile[x[1]] = ile[x[2]]
            /\ \A e \in ile[x[2]] :
                   /\ x[1] \in CogSet(gMST, e)
                   /\ Count(gMST[e].cogs, x[2]) = 1
            /\ \A pick \in ReducedPicks(x[2]) :
                   SameTrees(pick, x[2]) =>
                       LateralGainsOne(ReducedMST(x[2], pick), x[2])

\* a character of several origins is twice in the dictionary, and the other
\* characters can have the trees they have without it
C14_Witness ==
    /\ MLNBuilt
    /\ \E x \in Duplicates :
          /\ ile[x[2]] # {}
          /\ Cardinality(DOMAIN ile) >= 3
          /\ \E pick \in ReducedPicks(x[2]) : SameTrees(pick, x[2])
(***************************************************************************)
(* The order of the characters.                                            *)
(***************************************************************************)
\* the trees the last call got from nx.minimum_spanning_tree
LastPick ==
    [o \in OriginLists(LastScenarios) |->
        ile[CHOOSE c \in DOMAIN ile : Origins(LastScenarios[c][1]) = o]]

\* M has the edges of gMST, each with the weight and the set of cogs it
\* has in gMST
SameLateralGraph(M) ==
    /\ DOMAIN M = DOMAIN gMST
    /\ \A e \in DOMAIN M :
          /\ M[e].weight = gMST[e].weight
          /\ CogSet(M, e) = CogSet(gMST, e)

\* the dictionary get_GLS makes of the character c alone
Alone(c) ==
    GLSCall(Object(<<>>, <<>>, <<>>, Dict(<<>>)), tree, <<self_paps[c]>>,
            last.args[1], last.args[2], last.args[3], FALSE)

\* the mode string of the last call of get_GLS
LastModeString == ModeString(Alias(last.args[1]), last.args[2], last.args[3])

\* C15: for the dictionary of the last get_MLN, every order of its characters
\* gives the primary graph and the lateral graph of the call (the same
\* edges, the same weight and the same set of cogs on every edge); and every
\* entry of the dictionary get_GLS has made is the entry of the dictionary
\* made of that character alone
C15_OrderIndependence ==
    /\ MLNBuilt =>
          LET pick == LastPick
              gTpl == FromTemplate(tree)
          IN  \A order \in Orders(Len(LastScenarios)) :
                  /\ PrimaryGraph(gTpl, LastScenarios, order) = gPrm
                  /\ SameLateralGraph(LateralGraph(<<>>, LastScenarios, order, pick))
    /\ (last.op = "get_GLS" /\ last.raised # "ValueError") =>
          \A c \in DOMAIN self_gls[LastModeString] :
              self_gls[LastModeString][c] = Alone(c).self.gls[LastModeString][1]

\* three characters of three different scenarios, made by get_GLS, with an
\* edge of two of them in the lateral graph, are taken in another order than
\* that of the dictionary
C15_Witness ==
    /\ MLNBuilt
    /\ Len(LastScenarios) = 3
    /\ last.args[3] # <<1, 2, 3>>
    /\ \A c, x \in DOMAIN LastScenarios :
          c # x => LastScenarios[c] # LastScenarios[x]
    /\ \E e \in DOMAIN gMST : gMST[e].weight = 2
(***************************************************************************)
(* The threshold of get_MLN.                                               *)
(***************************************************************************)
\* get_MLN has stored the graph of its mode string
MLNStored == MLNBuilt /\ last.raised = ""

\* the horizontal edges of a graph
Horizontal(G) ==
    {e \in DOMAIN G.edge :
        "label" \in DOMAIN G.edge[e] /\ G.edge[e].label = "horizontal"}

\* C16: the graph get_MLN has stored for a threshold t has no horizontal
\* edge of a weight below t, the weight of a horizontal edge is the weight
\* the edge has in the lateral graph, and the lateral graph of the call is
\* the one of every other threshold
C16_Threshold ==
    MLNStored =>
        /\ \A e \in Horizontal(self_graph.items[last.args[1]]) :
              /\ self_graph.items[last.args[1]].edge[e].weight >= last.args[2]
              /\ {e[1], e[2]} \in DOMAIN gMST
              /\ self_graph.items[last.args[1]].edge[e].weight = gMST[{e[1], e[2]}].weight
        /\ \A t \in 1..MaxThreshold :
              MLNGraphs(tree, LastScenarios, last.args[3], LastPick, t).gMST = gMST

\* with the threshold 2, a lateral edge of weight 1 is left out and one of
\* weight 2 is in the graph
C16_Witness ==
    /\ MLNStored
    /\ last.args[2] = 2
    /\ \E e \in DOMAIN gMST : gMST[e].weight = 1
    /\ \E e \in Horizontal(self_graph.items[last.args[1]]) :
          gMST[{e[1], e[2]}].weight = 2
(***************************************************************************)
(* The errors of get_GLS.                                                  *)
(***************************************************************************)
\* the names of the weighted and of the restricted mode
ModeNames == {"weighted", "w", "restriction", "r"}

\* a step is a call of get_GLS with a mode that is none of the two
InvalidModeCall ==
    /\ budget' = budget - 1
    /\ last'.op = "get_GLS"
    /\ last'.args[1] \notin ModeNames

\* C17: a call of get_GLS with a mode that is neither weighted nor
\* restricted raises an error and leaves gls, stats, dists and graph as they
\* were before the call
C17_InvalidMode ==
    [][InvalidModeCall =>
          /\ last'.raised = "ValueError"
          /\ UNCHANGED <<self_gls, self_stats, self_dists, self_graph>>]_vars

\* get_GLS was called with a mode that is none of the two after a run that
\* has filled the dictionaries
C17_Witness ==
    /\ last.op = "get_GLS"
    /\ last.args[1] \notin ModeNames
    /\ last.raised = "ValueError"
    /\ DOMAIN self_gls # {}
    /\ DOMAIN self_stats # {}
\* the solver finds no scenario for the character c in the last run
Exhausted(c) ==
    SolveCog(Alias(last.args[1]), self_paps[c], last.args[2], last.args[3]).raised

\* C18: after a run of get_GLS the dictionary of the mode string has every
\* character of the dataset, a character the restricted solver finds no
\* scenario for has the empty GLS and zero origins, and the run has ended
\* without an error
C18_SolverExhausted ==
    (last.op = "get_GLS" /\ last.args[1] \in ModeNames) =>
        /\ last.raised = ""
        /\ LastModeString \in DOMAIN self_gls
        /\ DOMAIN self_gls[LastModeString] = DOMAIN self_paps
        /\ \A c \in DOMAIN self_paps :
              Exhausted(c) => self_gls[LastModeString][c] = <<<<>>, 0>>
(***************************************************************************)
(* The order of the calls.                                                 *)
(***************************************************************************)
\* C19: when analyze has run with its default runs, gls has a dictionary
\* for the mode string w-2-1; and get_MLN is called with a mode string that
\* is a key of gls
C19_Ordering ==
    /\ (last.op = "analyze" /\ last.raised = "") => "w-2-1" \in DOMAIN self_gls
    /\ last.op = "get_MLN" => last.args[1] \in DOMAIN self_gls
(***************************************************************************)
(* The graph attribute.                                                    *)
(***************************************************************************)
\* the graphs get_MLN has stored are kept by the step, as they are
StoredGraphsKept ==
    \A m \in DOMAIN self_graph.items :
        /\ m \in DOMAIN self_graph'.items
        /\ self_graph'.items[m] = self_graph.items[m]

\* C20: the graph attribute remains a dictionary from mode strings to
\* graphs in every step, and a graph get_MLN has stored remains in it
\* unchanged
C20_GraphLifecycle ==
    [][self_graph'.class = "dict" /\ (self_graph.class = "dict" => StoredGraphsKept)]_vars
(***************************************************************************)
(* The choice among the spanning trees of equal weight.                    *)
(***************************************************************************)
\* the order of the nodes: by the first tip, then by the last
NodeLess(u, v) == u[1] < v[1] \/ (u[1] = v[1] /\ u[2] < v[2])

\* the edge e as the pair (u, v) with u before v
EdgePair(e) ==
    LET u == CHOOSE u \in e : \A v \in e : u = v \/ NodeLess(u, v)
    IN  <<u, CHOOSE v \in e : v # u>>

\* the lexicographic order of the pairs (u, v)
EdgeLess(e, f) ==
    \/ NodeLess(EdgePair(e)[1], EdgePair(f)[1])
    \/ EdgePair(e)[1] = EdgePair(f)[1] /\ NodeLess(EdgePair(e)[2], EdgePair(f)[2])

\* T comes before U when their edges are listed in lexicographic order: the
\* first edge that only one of them has is an edge of T
TreeLess(T, U) ==
    \E e \in T \ U : \A f \in U \ T : EdgeLess(e, f)

\* C21: the edges get_MLN records for a character of several origins are
\* those of the minimum spanning tree of its graph of weights that is the
\* smallest in the lexicographic order of the edges
C21_LexicographicMST ==
    MLNBuilt =>
        \A c \in DOMAIN LastScenarios :
            Len(Origins(LastScenarios[c][1])) >= 2 =>
                \A T \in MinimumSpanningTrees(gPrm, Origins(LastScenarios[c][1])) :
                    T = ile[c] \/ TreeLess(ile[c], T)
(***************************************************************************)
(* The frame of get_GLS.                                                   *)
(***************************************************************************)
\* the key of a run: w-g-l for the ratio (g, l), r-k for the restriction k
KeyOf(args) ==
    IF args[1] \in {"weighted", "w"}
    THEN "w-" \o ToString(args[2][1]) \o "-" \o ToString(args[2][2])
    ELSE "r-" \o ToString(args[3])

\* a step is a call of get_GLS with the weighted or the restricted mode
ValidModeCall ==
    /\ budget' = budget - 1
    /\ last'.op = "get_GLS"
    /\ last'.args[1] \in ModeNames

\* the entries of the dictionary other than key are those of before
OthersKept(dict, after, key) ==
    /\ DOMAIN after = DOMAIN dict \cup {key}
    /\ \A m \in DOMAIN dict \ {key} : after[m] = dict[m]

Shortest ==
    {i \in 1..Len(gls_list) :
        \A j \in 1..Len(gls_list) : Len(gls_list[i]) <= Len(gls_list[j])}

SubtreesWith(g, m) ==
    {i \in 1..Len(g) : g[i][1] # m /\ Dominates(g[i][1], m)}

\* the entry with the smallest subtree among the entries of S
Deepest(g, S) == CHOOSE i \in S : \A j \in S : Dominates(g[j][1], g[i][1])

\* the scenario with its entries in the order f
Reordered(g, f) == [i \in 1..Len(g) |-> g[f[i]]]

RECURSIVE PrimarySum(_, _)
\* the sum of the weights of the primary graph over the edges of T
PrimarySum(G, T) ==
    IF T = {} THEN 0
    ELSE LET e == CHOOSE e \in T : TRUE
         IN  PrimaryWeight(G, e) + PrimarySum(G, T \ {e})

\* C25: for every character with at least two origins, every two of its
\* origins have a weight of at least 1 in the primary graph, and no spanning
\* tree on its origins has a larger sum of primary weights than the edges
\* get_MLN records for it
C25_MaximumPrimaryWeight ==
    MLNBuilt =>
        \A c \in DOMAIN LastScenarios :
            Len(Origins(LastScenarios[c][1])) >= 2 =>
                LET O == OriginSet(LastScenarios[c][1])
                    best == PrimarySum(gPrm, ile[c])
                IN  /\ \A u, v \in O : u # v => WeightOf(gPrm, u, v) >= 1
                    /\ \A T \in SpanningTrees(O) : PrimarySum(gPrm, T) <= best

\* a character of three origins with a spanning tree of a smaller sum
C25_Witness ==
    /\ MLNBuilt
    /\ \E c \in DOMAIN LastScenarios :
          /\ Len(Origins(LastScenarios[c][1])) >= 3
          /\ \E T \in SpanningTrees(OriginSet(LastScenarios[c][1])) :
                PrimarySum(gPrm, T) < PrimarySum(gPrm, ile[c])
(***************************************************************************)
(* The solvers always yield a scenario.                                    *)
(***************************************************************************)
\* the character has at least two positive taxa and a taxon without it
\* below their common ancestor, and the restriction, where used, is positive
Mixed ==
    /\ Count(pap, 1) >= 2
    /\ ~SingleOrigin(Subtree(tree, pap), LeafStates(Subtree(tree, pap), pap))
    /\ mode = "restriction" => restriction >= 1

\* C26: for such a character both solvers keep a non-empty list of
\* histories at every node of the subtree, the children of every internal
\* node having their lists when it is joined, and return a scenario taken
\* from a non-empty list of candidates
C26_SolverYields ==
    (pc # "ready" /\ Mixed) =>
        LET todo == OrderedNodes(tree, Subtree(tree, pap))
        IN  /\ pc # "raised"
            /\ \A i \in 1..Len(todo) :
                  /\ todo[i] \in DOMAIN d
                  /\ Len(d[todo[i]]) > 0
                  /\ \A j \in 1..Len(Children(tree, todo[i])) :
                        Len(d[Children(tree, todo[i])[j]]) > 0
            /\ Len(gls_list) > 0
            /\ \E i \in 1..Len(gls_list) : gls = gls_list[i]

\* the restriction 1 leaves a single candidate for a character of three
\* positive taxa
C26_Witness ==
    /\ pc = "solved" /\ Mixed
    /\ mode = "restriction" /\ restriction = 1
    /\ Count(pap, 1) >= 3
    /\ Len(gls_list) = 1
(***************************************************************************)
(* The maxWeight test of the weighted solver.                              *)
(***************************************************************************)
\* a weight no history reaches: every node of the tree an event of the
\* larger weight
NoLimit(p, r) == 2 * Len(p) * (r[1] + r[2])

\* the weighted procedure with every partial history kept: the test
\* against maxWeight always passes, the test for additional gains stays
Unpruned(t, p, r) ==
    LET sub == Subtree(t, p)
        d0 == LeafStates(sub, p)
    IN  IF SingleOrigin(sub, d0) THEN Returned(d0, <<>>, << <<sub, 1>> >>)
        ELSE LET j == WeightedJoin(t, OrderedNodes(t, sub), d0, r, NoLimit(p, r))
             IN  IF j.raised \/ sub \notin DOMAIN j.d THEN Raised(j.d, <<>>)
                 ELSE LET gl == GlsList(sub, j.d[sub])
                      IN  IF Len(gl) = 0 THEN Raised(j.d, gl)
                          ELSE Returned(j.d, gl, WeightedSelect(gl, r))

\* the scenarios of minimal cost among the candidates gl
Cheapest(gl, r) ==
    MinimalScenarios(gl, [i \in 1..Len(gl) |->
                             r[1] * Gains(gl[i]) + r[2] * Losses(gl[i])])

\* C27: get_weighted_GLS returns the scenario the procedure returns with
\* every partial history kept, and the candidates of minimal cost are the
\* same, in the same order, with and without the maxWeight test
C27_PruningOnlyOptimises ==
    (pc # "ready" /\ mode = "weighted") =>
        LET u == Unpruned(tree, pap, ratio)
        IN  /\ pc = "raised" <=> u.raised
            /\ gls = u.gls
            /\ Cheapest(gls_list, ratio) = Cheapest(u.gls_list, ratio)

\* the maxWeight test has removed candidates
C27_Witness ==
    /\ pc = "solved" /\ mode = "weighted"
    /\ Len(gls_list) > 0
    /\ Len(Unpruned(tree, pap, ratio).gls_list) > Len(gls_list)
(***************************************************************************)
(* The shape of the scenarios returned.                                    *)
(***************************************************************************)
\* the parent of the node n of the tree t
Parent(t, n) ==
    CHOOSE m \in t : /\ m # n /\ Dominates(m, n)
                     /\ \A x \in t : (x # n /\ Dominates(x, n)) => Dominates(x, m)

\* some taxon below the node n has the character
HasPositive(p, n) == \E k \in n[1]..n[2] : p[k] >= 1

\* C28: in a returned GLS every loss sits at a node without a positive
\* taxon below it whose parent has one, strictly below a gain of the same
\* GLS; the GLS has at least one gain, and with a gain at the common
\* ancestor of the positive taxa it has no other gain
C28_ScenarioShape ==
    Solved =>
        /\ \A i \in 1..Len(gls) :
              gls[i][2] = 0 =>
                  LET n == gls[i][1]
                  IN  /\ ~HasPositive(pap, n)
                      /\ n # Root(taxa)
                      /\ HasPositive(pap, Parent(tree, n))
                      /\ \E j \in 1..Len(gls) :
                            /\ gls[j][2] = 1
                            /\ gls[j][1] # n
                            /\ Dominates(gls[j][1], n)
        /\ Gains(gls) >= 1
        /\ (\E i \in 1..Len(gls) : gls[i] = <<Subtree(tree, pap), 1>>)
              => Gains(gls) = 1

\* a loss of a clade of several taxa below a gain that is not at the
\* common ancestor, next to a second gain
C28_Witness ==
    /\ Solved
    /\ Gains(gls) >= 2
    /\ \E i, j \in 1..Len(gls) :
          /\ gls[i][2] = 0 /\ gls[i][1][1] < gls[i][1][2]
          /\ gls[j][2] = 1 /\ gls[j][1] # gls[i][1]
          /\ Dominates(gls[j][1], gls[i][1])
          /\ gls[j][1] # Subtree(tree, pap)
(***************************************************************************)
(* Lateral edges and the edges of the tree.                                *)
(***************************************************************************)
\* one of the nodes of the edge e lies below the other
Lineal(e) == \E u, v \in e : u # v /\ Dominates(u, v)

\* C29: no edge of the lateral graph joins a node and a node below it, so
\* every lateral edge that passes the threshold is in the graph get_MLN
\* stores, as a horizontal edge of its lateral weight, and every edge of the
\* tree is in the primary graph and in the stored graph as the template has
\* it, without a weight
C29_NoShadowing ==
    MLNStored =>
        LET gOut == self_graph.items[last.args[1]]
            gTpl == FromTemplate(tree)
        IN  /\ \A e \in DOMAIN gMST :
                  /\ ~Lineal(e)
                  /\ \A u, v \in e :
                        (u # v /\ Passes(gMST[e].weight, last.args[2])) =>
                            /\ <<u, v>> \in DOMAIN gOut.edge
                            /\ gOut.edge[<<u, v>>].label = "horizontal"
                            /\ gOut.edge[<<u, v>>].weight = gMST[e].weight
            /\ \A e \in TreeEdges(tree) :
                  /\ ~HasWeight(gPrm, e[1], e[2])
                  /\ e \in DOMAIN gOut.edge
                  /\ gOut.edge[e] = gTpl.edge[e]

\* a lateral edge between a clade and a taxon outside of it, in the stored
\* graph as a horizontal edge next to the edges of the tree
C29_Witness ==
    /\ MLNStored
    /\ \E e \in DOMAIN gMST :
          /\ \E u \in e : ~IsTip(u)
          /\ Passes(gMST[e].weight, last.args[2])
          /\ \A u, v \in e :
                u # v => <<u, v>> \in Horizontal(self_graph.items[last.args[1]])
    /\ Cardinality(DOMAIN self_graph.items[last.args[1]].edge)
           = Cardinality(TreeEdges(tree)) + 2 * Cardinality(DOMAIN gMST)
(***************************************************************************)
(* The restriction and the number of events.                               *)
(***************************************************************************)
\* the number of events of the scenario get_restricted_GLS returns for the
\* restriction k, none returned counting as more than any
EventCount(t, p, k) ==
    LET out == RestrictedGLS(t, p, k)
    IN  IF out.raised THEN 2 * Len(p) ELSE Gains(out.gls) + Losses(out.gls)

\* C30: the scenario get_restricted_GLS returns for a restriction k >= 1
\* has at least as many events as the one it returns for any larger
\* restriction
C30_RestrictionMonotone ==
    (pc = "solved" /\ mode = "restriction" /\ restriction >= 1) =>
        \A k \in (restriction + 1)..(MaxRestriction + 1) :
            EventCount(tree, pap, k) <= Gains(gls) + Losses(gls)

\* a larger restriction gives a scenario of fewer events
C30_Witness ==
    /\ pc = "solved" /\ mode = "restriction" /\ restriction >= 1
    /\ EventCount(tree, pap, restriction + 1) < Gains(gls) + Losses(gls)
====
